---- MODULE Spec2Model ----
(***************************************************************************)
(* A model of the ClawMates backend (src/src/index.ts): the REST handlers  *)
(* over the Prisma store and the two socket.io namespaces.  Every `await`  *)
(* of a handler is a point where other requests may run, so a handler with *)
(* several awaits is a sequence of steps; a handler with one await is one  *)
(* step.  Each subsystem has its own specification over the shared state.  *)
(***************************************************************************)
EXTENDS Integers, Sequences, FiniteSets, TLC

VARIABLES
    villaFeedClients,      \* let villaFeedClients (index.ts:28)
    conversationsClients,  \* let conversationsClients (index.ts:29)
    villaSockets,          \* sockets currently connected to /villa-feed
    convSockets,           \* sockets currently connected to /conversations
    wsEvents,              \* number of connect/disconnect events so far
    wsStatus,              \* last body returned by GET /api/ws-status
    emitted,               \* every emission, in order: [ns, event, data]
    waitlistEntry,         \* table WaitlistEntry: sequence of [id, email]
    wlReq,                 \* POST /api/waitlist requests: [pc, email, status, error, id]
    relationship,          \* table Relationship: sequence of records
    relReq,                \* POST and PUT /api/relationships requests
    conversation,          \* table Conversation: sequence of records
    message,               \* table Message: sequence of records
    now,                   \* the clock that new Date() and the store read
    msgReq,                \* POST /api/messages requests
    agent,                 \* table Agent: id -> row, for the ids that exist
    agResp,                \* the response of the last agent request answered
    bulkReq,               \* the POST /api/agents/bulk request
    event,                 \* table Event: sequence of records
    feedResp               \* the last answer of GET /api/villa-feed

wsVars == <<villaFeedClients, conversationsClients, villaSockets, convSockets,
            wsEvents, wsStatus>>
wlVars == <<waitlistEntry, wlReq>>
relVars == <<relationship, relReq>>
msgVars == <<conversation, message, now, msgReq>>
agVars == <<agent, agResp, bulkReq>>
feedVars == <<event, feedResp>>

vars == <<villaFeedClients, conversationsClients, villaSockets, convSockets,
          wsEvents, wsStatus, emitted, waitlistEntry, wlReq,
          relationship, relReq, conversation, message, now, msgReq,
          agent, agResp, bulkReq, event, feedResp>>

\* ---------------------------------------------------------------- bounds
NSockets == 2
MaxWsEvents == 4
NWlReq == 3
NRelReq == 3
MaxConversations == 1
NMsgReq == 2
MaxClock == 2
MaxBulk == 2
MaxEvents == 2
MaxFeedMessages == 2

SocketIds == 1..NSockets
WlReqIds == 1..NWlReq
\* sample agent ids (supplied by the caller, index.ts:213)
AgentIds == {"a1", "a2"}
RelReqIds == 1..NRelReq
MsgReqIds == 1..NMsgReq

\* Requests are numbered in the order in which their handlers start.
Arrives(req, r) == IF r = 1 THEN TRUE ELSE req[r - 1].pc # "idle"

\* a field the JSON body does not carry
Undefined == "undefined"

\* ------------------------------------------------ realtime fan-out (27-77)
Emission(ns, ev, data) == [ns |-> ns, event |-> ev, data |-> data]

\* villaFeedClients++ (line 33)
VillaFeedIncrement(n) == n + 1
\* villaFeedClients-- (line 40)
VillaFeedDecrement(n) == n - 1
\* conversationsClients++ (line 48)
ConversationsIncrement(n) == n + 1
\* a slip that leaves the conversations counter where it was on disconnect
ConversationsDecrementSkipped(n) == n
\* conversationsClients-- (line 52)
ConversationsDecrement(n) == n - 1

VillaFeedConnection(s) ==
    /\ s \notin villaSockets
    /\ wsEvents < MaxWsEvents
    /\ villaSockets' = villaSockets \cup {s}
    /\ villaFeedClients' = VillaFeedIncrement(villaFeedClients)
    /\ emitted' = Append(emitted,
                         Emission("villa-feed", "client-count", villaFeedClients'))
    /\ wsEvents' = wsEvents + 1
    /\ UNCHANGED <<conversationsClients, convSockets, wsStatus, wlVars, relVars,
                   msgVars, agVars, feedVars>>

VillaFeedDisconnect(s) ==
    /\ s \in villaSockets
    /\ wsEvents < MaxWsEvents
    /\ villaSockets' = villaSockets \ {s}
    /\ villaFeedClients' = VillaFeedDecrement(villaFeedClients)
    /\ emitted' = Append(emitted,
                         Emission("villa-feed", "client-count", villaFeedClients'))
    /\ wsEvents' = wsEvents + 1
    /\ UNCHANGED <<conversationsClients, convSockets, wsStatus, wlVars, relVars,
                   msgVars, agVars, feedVars>>

ConversationsConnection(s) ==
    /\ s \notin convSockets
    /\ wsEvents < MaxWsEvents
    /\ convSockets' = convSockets \cup {s}
    /\ conversationsClients' = ConversationsIncrement(conversationsClients)
    /\ wsEvents' = wsEvents + 1
    /\ UNCHANGED <<villaFeedClients, villaSockets, wsStatus, emitted, wlVars, relVars,
                   msgVars, agVars, feedVars>>

ConversationsDisconnect(s) ==
    /\ s \in convSockets
    /\ wsEvents < MaxWsEvents
    /\ convSockets' = convSockets \ {s}
    /\ conversationsClients' = ConversationsDecrement(conversationsClients)
    /\ wsEvents' = wsEvents + 1
    /\ UNCHANGED <<villaFeedClients, villaSockets, wsStatus, emitted, wlVars, relVars,
                   msgVars, agVars, feedVars>>

\* GET /api/ws-status (68-77)
WsStatusBody(v, c) == [villaFeed |-> v, conversations |-> c, total |-> v + c]

GetWsStatus ==
    /\ wsStatus' = WsStatusBody(villaFeedClients, conversationsClients)
    /\ UNCHANGED <<villaFeedClients, conversationsClients, villaSockets,
                   convSockets, wsEvents, emitted, wlVars, relVars, msgVars, agVars,
                   feedVars>>

\* ------------------------------------------------ store errors (Prisma)
\* error.code of a unique-constraint violation, tested at lines 371 and 536
P2002 == "P2002"
\* any other rejection of a persistence call (connection, validation, ...)
OtherError == "OTHER"
NoError == ""

\* ------------------------------------------------------ waitlist (522-541)
\* Emails are character sequences, so that includes("@") is computed.
Emails == { <<>>, <<"a", "x">>, <<"a", "@", "x">>, <<"b", "@", "x">> }

\* email.includes("@")
Includes(s, c) == \E i \in 1..Len(s) : s[i] = c

\* !email || !email.includes("@")  (the absent and the empty email are falsy)
InvalidEmail(email) == Len(email) = 0 \/ ~Includes(email, "@")

\* the unique index on WaitlistEntry.email
EmailTaken(table, email) == \E i \in 1..Len(table) : table[i].email = email

WlResponse(st, err, id, code) ==
    [pc |-> "done", status |-> st, error |-> err, id |-> id, storeError |-> code]

\* a catch block that reports every store error alike
WaitlistCatchGeneric(code) == WlResponse(500, "Failed to add to waitlist", 0, code)

\* catch (error) of POST /api/waitlist (535-540)
WaitlistCatch(code) ==
    IF code = P2002
    THEN WlResponse(400, "Email already registered", 0, code)
    ELSE WlResponse(500, "Failed to add to waitlist", 0, code)

\* POST /api/waitlist: one await, so one step
PostWaitlist(r, email) ==
    /\ wlReq[r].pc = "idle" /\ Arrives(wlReq, r)
    /\ \/ /\ InvalidEmail(email)
          /\ wlReq' = [wlReq EXCEPT ![r] =
                         [email |-> email] @@ WlResponse(400, "Invalid email", 0, NoError)]
          /\ UNCHANGED waitlistEntry
       \/ /\ ~InvalidEmail(email)
          /\ ~EmailTaken(waitlistEntry, email)
          /\ waitlistEntry' = Append(waitlistEntry,
                                     [id |-> Len(waitlistEntry) + 1, email |-> email])
          /\ wlReq' = [wlReq EXCEPT ![r] =
                         [email |-> email] @@ WlResponse(200, "", Len(waitlistEntry) + 1, NoError)]
       \/ /\ ~InvalidEmail(email)
          /\ EmailTaken(waitlistEntry, email)
          /\ wlReq' = [wlReq EXCEPT ![r] = [email |-> email] @@ WaitlistCatch(P2002)]
          /\ UNCHANGED waitlistEntry
       \/ /\ ~InvalidEmail(email)
          /\ wlReq' = [wlReq EXCEPT ![r] = [email |-> email] @@ WaitlistCatch(OtherError)]
          /\ UNCHANGED waitlistEntry
    /\ UNCHANGED <<wsVars, emitted, relVars, msgVars, agVars, feedVars>>

\* ------------------------------------------------ relationships (357-412)
\* compatibilityScore || 50 (line 364); 0 stands for an absent or zero score
DefaultCompatibility == 50
CompatibilityOrDefault(c) == IF c = 0 THEN DefaultCompatibility ELSE c
\* status || "talking" (line 365)
StatusOrTalking(st) == IF st = Undefined \/ st = "" THEN "talking" ELSE st

\* an index over the ordered pair only
PairTakenOrdered(table, a1, a2) ==
    \E i \in 1..Len(table) : table[i].agent1Id = a1 /\ table[i].agent2Id = a2

\* The unique index over the agent pair of Relationship.  The schema is not
\* part of the sources; the index is modelled as the specification states it:
\* one row per unordered pair, a create of the pair in either order violates it.
PairTaken(table, a1, a2) ==
    \E i \in 1..Len(table) :
        \/ table[i].agent1Id = a1 /\ table[i].agent2Id = a2
        \/ table[i].agent1Id = a2 /\ table[i].agent2Id = a1

\* a lookup that matches the pair in the order given only
RelationshipWhereSameOrder(rec, a1, a2) == rec.agent1Id = a1 /\ rec.agent2Id = a2

\* where: { OR: [{agent1Id, agent2Id}, {agent1Id: agent2Id, agent2Id: agent1Id}] }
\* (lines 374-379)
RelationshipWhere(rec, a1, a2) ==
    \/ rec.agent1Id = a1 /\ rec.agent2Id = a2
    \/ rec.agent1Id = a2 /\ rec.agent2Id = a1

\* prisma.relationship.findFirst: the id of the first matching row, 0 for null
FindFirstRelationship(table, a1, a2) ==
    LET hits == { i \in 1..Len(table) : RelationshipWhere(table[i], a1, a2) }
    IN  IF hits = {} THEN 0
        ELSE table[CHOOSE i \in hits : \A j \in hits : i <= j].id

RelIdle == [pc |-> "idle", op |-> "", agent1Id |-> "", agent2Id |-> "", target |-> 0,
            status |-> 0, respId |-> 0, created |-> FALSE, storeError |-> NoError]

\* POST /api/relationships, first await: prisma.relationship.create (360-369)
PostRelationshipCreate(r, a1, a2, compat, st) ==
    /\ relReq[r].pc = "idle" /\ Arrives(relReq, r)
    /\ \/ /\ ~PairTaken(relationship, a1, a2)
          /\ relationship' = Append(relationship,
                [id |-> Len(relationship) + 1, agent1Id |-> a1, agent2Id |-> a2,
                 compatibilityScore |-> CompatibilityOrDefault(compat),
                 status |-> StatusOrTalking(st), healthScore |-> Undefined,
                 endedAt |-> Undefined])
          /\ relReq' = [relReq EXCEPT ![r] =
                [RelIdle EXCEPT !.pc = "done", !.op = "post", !.agent1Id = a1,
                                !.agent2Id = a2, !.status = 200,
                                !.respId = Len(relationship) + 1, !.created = TRUE]]
       \/ /\ PairTaken(relationship, a1, a2)
          \* error.code === "P2002": the handler goes on to findFirst (371-381)
          /\ relReq' = [relReq EXCEPT ![r] =
                [RelIdle EXCEPT !.pc = "findFirst", !.op = "post", !.agent1Id = a1,
                                !.agent2Id = a2, !.storeError = P2002]]
          /\ UNCHANGED relationship
       \/ \* any other error: 500 (384-385)
          /\ relReq' = [relReq EXCEPT ![r] =
                [RelIdle EXCEPT !.pc = "done", !.op = "post", !.agent1Id = a1,
                                !.agent2Id = a2, !.status = 500,
                                !.storeError = OtherError]]
          /\ UNCHANGED relationship
    /\ UNCHANGED <<wsVars, emitted, wlVars, msgVars, agVars, feedVars>>

\* POST /api/relationships, second await: findFirst inside the catch block.
\* res.json(existing) answers 200 also when existing is null (respId 0).  A
\* rejection of findFirst is raised inside the catch block, where nothing
\* catches it: the request gets no response.
PostRelationshipFindFirst(r) ==
    /\ relReq[r].pc = "findFirst"
    /\ \/ relReq' = [relReq EXCEPT ![r].pc = "done", ![r].status = 200,
                        ![r].respId = FindFirstRelationship(relationship,
                                          relReq[r].agent1Id, relReq[r].agent2Id)]
       \/ relReq' = [relReq EXCEPT ![r].pc = "unanswered",
                                   ![r].storeError = OtherError]
    /\ UNCHANGED <<wsVars, emitted, wlVars, relationship, msgVars, agVars, feedVars>>

\* the data object of PUT /api/relationships/:id (393-396): only the fields
\* the body carries are written
RelationshipUpdateData(rec, st, health, ended) ==
    [rec EXCEPT !.status = IF st # Undefined THEN st ELSE @,
                !.healthScore = IF health # Undefined THEN health ELSE @,
                !.endedAt = IF ended # Undefined THEN ended ELSE @]

\* PUT /api/relationships/:id: one await (update), then the emission and the
\* response in the same turn; update of a missing id rejects (400-411)
PutRelationship(r, id, st, health, ended) ==
    /\ relReq[r].pc = "idle" /\ Arrives(relReq, r)
    /\ \/ /\ id \in 1..Len(relationship)
          /\ relationship' = [relationship EXCEPT
                                 ![id] = RelationshipUpdateData(@, st, health, ended)]
          /\ emitted' = Append(emitted, Emission("villa-feed", "relationship-update", id))
          /\ relReq' = [relReq EXCEPT ![r] =
                [RelIdle EXCEPT !.pc = "done", !.op = "put", !.target = id,
                                !.status = 200, !.respId = id]]
       \/ /\ relReq' = [relReq EXCEPT ![r] =
                [RelIdle EXCEPT !.pc = "done", !.op = "put", !.target = id,
                                !.status = 500, !.storeError = OtherError]]
          /\ UNCHANGED <<relationship, emitted>>
    /\ UNCHANGED <<wsVars, wlVars, msgVars, agVars, feedVars>>

\* --------------------------------------- conversations, messages (414-465)
\* Time passes between any two steps, or does not.
Tick ==
    /\ now < MaxClock
    /\ now' = now + 1
    /\ UNCHANGED <<wsVars, emitted, wlVars, relVars, conversation, message, msgReq,
                   agVars, feedVars>>

\* A new Conversation row.  The schema is not part of the sources: the row's
\* last-message timestamp is taken to start at the creation time.
NewConversation(id, relationshipId, t) ==
    [id |-> id, relationshipId |-> relationshipId, lastMessageAt |-> t]

\* A new Message row; createdAt is assigned by the store on write.
NewMessage(id, conversationId, t) ==
    [id |-> id, conversationId |-> conversationId, createdAt |-> t]

\* POST /api/conversations (415-430): create, emit "new-conversation", answer
PostConversation(relationshipId) ==
    /\ Len(conversation) < MaxConversations
    /\ conversation' = Append(conversation,
                          NewConversation(Len(conversation) + 1, relationshipId, now))
    /\ emitted' = Append(emitted, Emission("conversations", "new-conversation",
                                           Len(conversation) + 1))
    /\ UNCHANGED <<wsVars, wlVars, relVars, message, now, msgReq, agVars, feedVars>>

MsgIdle == [pc |-> "idle", conversationId |-> 0, msgId |-> 0, createdAt |-> 0,
            stamp |-> 0, touched |-> FALSE, status |-> 0]

\* a catch block that still announces the message
EmittedInCatchAnnounces(em, msgId) ==
    IF msgId # 0 THEN Append(em, Emission("villa-feed", "new-message", msgId)) ELSE em

\* catch (error) of POST /api/messages (461-464): logs and answers 500; it
\* emits nothing and compensates nothing
EmittedInCatch(em, msgId) == em

\* POST /api/messages, first await: prisma.message.create (436-445).  The
\* store rejects a message whose conversation does not exist.
PostMessageCreate(r, c) ==
    /\ msgReq[r].pc = "idle" /\ Arrives(msgReq, r)
    /\ \/ /\ c \in 1..Len(conversation)
          /\ message' = Append(message, NewMessage(Len(message) + 1, c, now))
          /\ msgReq' = [msgReq EXCEPT ![r] =
                [MsgIdle EXCEPT !.pc = "created", !.conversationId = c,
                                !.msgId = Len(message) + 1, !.createdAt = now]]
          /\ UNCHANGED emitted
       \/ /\ msgReq' = [msgReq EXCEPT ![r] =
                [MsgIdle EXCEPT !.pc = "done", !.conversationId = c, !.status = 500]]
          /\ emitted' = EmittedInCatch(emitted, 0)
          /\ UNCHANGED message
    /\ UNCHANGED <<wsVars, wlVars, relVars, conversation, now, agVars, feedVars>>

\* The handler resumes after the create: `new Date()` is evaluated as the
\* argument of prisma.conversation.update (line 450) and the update is sent.
PostMessageIssueUpdate(r) ==
    /\ msgReq[r].pc = "created"
    /\ msgReq' = [msgReq EXCEPT ![r].pc = "updating", ![r].stamp = now]
    /\ UNCHANGED <<wsVars, emitted, wlVars, relVars, conversation, message, now,
                   agVars, feedVars>>

\* data: { lastMessageAt: <the date sent> }: the row takes the value it is sent
TouchConversation(rec, stamp) == [rec EXCEPT !.lastMessageAt = stamp]

\* prisma.conversation.update (448-451) takes effect in the store, or rejects
\* and the catch block answers 500.
PostMessageUpdate(r) ==
    /\ msgReq[r].pc = "updating"
    /\ \/ /\ conversation' = [conversation EXCEPT ![msgReq[r].conversationId] =
                                 TouchConversation(@, msgReq[r].stamp)]
          /\ msgReq' = [msgReq EXCEPT ![r].pc = "updated", ![r].touched = TRUE]
          /\ UNCHANGED emitted
       \/ /\ msgReq' = [msgReq EXCEPT ![r].pc = "done", ![r].status = 500]
          /\ emitted' = EmittedInCatch(emitted, msgReq[r].msgId)
          /\ UNCHANGED conversation
    /\ UNCHANGED <<wsVars, wlVars, relVars, message, now, agVars, feedVars>>

\* The handler resumes after the update: villaFeed.emit("new-message") and
\* res.json(message) (454-460).
PostMessageEmit(r) ==
    /\ msgReq[r].pc = "updated"
    /\ emitted' = Append(emitted, Emission("villa-feed", "new-message", msgReq[r].msgId))
    /\ msgReq' = [msgReq EXCEPT ![r].pc = "done", ![r].status = 200]
    /\ UNCHANGED <<wsVars, wlVars, relVars, conversation, message, now, agVars, feedVars>>

\* ------------------------------------------------------ agents (92-110, 209-335)
Null == "null"

\* a ?? b
Coalesce(a, b) == IF a = Undefined \/ a = Null THEN b ELSE a
\* a || d, for strings
OrDefault(a, d) == IF a = Undefined \/ a = Null \/ a = "" THEN d ELSE a
\* group?.field: a trait group is [present, <trait>]
OptionalChain(group, field) == IF group.present THEN group[field] ELSE Undefined

\* The columns of Agent that the claims speak of: name, status, one trait of
\* the bigFive group and one of the romance group.  The other eight traits
\* are written by the same expression with the trait's name changed.
AgentFields == {"name", "status", "openness", "flirtatiousness"}

\* a data object that writes the status it was given only
PostAgentDataStatusKept(data) ==
    [name |-> OrDefault(data.name, ""),
     openness |-> Coalesce(data.openness, OptionalChain(data.bigFive, "openness")),
     flirtatiousness |-> Coalesce(data.flirtatiousness,
                                  OptionalChain(data.romance, "flirtatiousness")),
     status |-> data.status]

\* the update and the create object of POST /api/agents (214-260); the two
\* differ by `id` only
PostAgentData(data) ==
    [name |-> OrDefault(data.name, ""),
     openness |-> Coalesce(data.openness, OptionalChain(data.bigFive, "openness")),
     flirtatiousness |-> Coalesce(data.flirtatiousness,
                                  OptionalChain(data.romance, "flirtatiousness")),
     status |-> OrDefault(data.status, "single")]

\* the update and the create object of POST /api/agents/bulk (281-325): the
\* nested group comes first, and neither object has a status
BulkAgentData(data) ==
    [name |-> OrDefault(data.name, ""),
     openness |-> Coalesce(OptionalChain(data.bigFive, "openness"), data.openness),
     flirtatiousness |-> Coalesce(OptionalChain(data.romance, "flirtatiousness"),
                                  data.flirtatiousness),
     status |-> Undefined]

\* What a created row holds in a column the create object leaves undefined.
\* The schema is not part of the sources: status is taken to default to
\* "single", the traits to null.
SchemaDefault(field) == IF field = "status" THEN "single" ELSE Null

\* prisma.agent.upsert: an undefined field of `update` is not written, an
\* undefined field of `create` takes the column's default
UpdateRow(row, data) ==
    [f \in AgentFields |-> IF data[f] = Undefined THEN row[f] ELSE data[f]]
CreateRow(data) ==
    [f \in AgentFields |-> IF data[f] = Undefined THEN SchemaDefault(f) ELSE data[f]]
Upsert(table, id, data) ==
    IF id \in DOMAIN table
    THEN [table EXCEPT ![id] = UpdateRow(@, data)]
    ELSE [i \in DOMAIN table \cup {id} |->
             IF i = id THEN CreateRow(data) ELSE table[i]]

NoGroup(field) == [present |-> FALSE] @@ [f \in {field} |-> Undefined]
Group(field, v) == [present |-> TRUE] @@ [f \in {field} |-> v]

\* request bodies of POST /api/agents, and elements of the bulk array: every
\* combination for the bigFive trait; the romance trait absent, or given in
\* both places
Payloads ==
    { data \in [id : AgentIds,
                name : {Undefined, "Ann"},
                status : {Undefined, "coupled"},
                openness : {Undefined, "flat"},
                bigFive : {NoGroup("openness"), Group("openness", "nested")},
                flirtatiousness : {Undefined, "flat"},
                romance : {NoGroup("flirtatiousness"),
                           Group("flirtatiousness", "nested")}] :
        (data.flirtatiousness = Undefined) <=> ~data.romance.present }

NoPayload == [id |-> "", name |-> Undefined, status |-> Undefined,
              openness |-> Undefined, bigFive |-> NoGroup("openness"),
              flirtatiousness |-> Undefined, romance |-> NoGroup("flirtatiousness")]
NoRow == [f \in AgentFields |-> Undefined]

AgResponse(op, st, err, id, row, as1, as2, after) ==
    [op |-> op, status |-> st, error |-> err, id |-> id, row |-> row,
     relationshipsAsAgent1 |-> as1, relationshipsAsAgent2 |-> as2, after |-> after]

\* GET /api/agents/:id (92-110): findUnique with both relationship sides
GetAgentById(table, rels, id, after) ==
    IF id \notin DOMAIN table
    THEN AgResponse("get", 404, "Agent not found", id, NoRow, {}, {}, NoPayload)
    ELSE AgResponse("get", 200, "", id, table[id],
                    { rels[i].id : i \in { j \in 1..Len(rels) : rels[j].agent1Id = id } },
                    { rels[i].id : i \in { j \in 1..Len(rels) : rels[j].agent2Id = id } },
                    after)

\* The payload of the POST /api/agents that was answered with success just
\* before, when it wrote this id.
JustPosted(id) ==
    IF agResp.op = "post" /\ agResp.status = 200 /\ agResp.id = id
    THEN agResp.after ELSE NoPayload

GetAgent(id) ==
    /\ \/ agResp' = GetAgentById(agent, relationship, id, JustPosted(id))
       \/ agResp' = AgResponse("get", 500, "Failed to fetch agent", id, NoRow, {}, {},
                               NoPayload)
    /\ UNCHANGED <<wsVars, emitted, wlVars, relVars, msgVars, agent, bulkReq, feedVars>>

\* POST /api/agents (209-267): one await, the upsert
PostAgent(data) ==
    /\ \/ /\ agent' = Upsert(agent, data.id, PostAgentData(data))
          /\ agResp' = AgResponse("post", 200, "", data.id, agent'[data.id], {}, {}, data)
       \/ /\ agResp' = AgResponse("post", 500, "Failed to upsert agent", data.id, NoRow,
                                  {}, {}, NoPayload)
          /\ UNCHANGED agent
    /\ UNCHANGED <<wsVars, emitted, wlVars, relVars, msgVars, bulkReq, feedVars>>

\* POST /api/agents/bulk (270-335)
BulkIdle == [pc |-> "idle", n |-> 0, k |-> 0, status |-> 0, error |-> "",
             success |-> FALSE, count |-> 0]

\* a catch block that reports how many elements were written
BulkCatchReportsCount(req) ==
    [req EXCEPT !.pc = "done", !.status = 500,
                !.error = "Failed to bulk sync agents", !.count = req.k]

\* catch (error) of the bulk handler (331-334): 500 and the generic error only
BulkCatch(req) ==
    [req EXCEPT !.pc = "done", !.status = 500, !.error = "Failed to bulk sync agents"]

\* res.json({ success: true, count: results.length, agents: results }) (330)
BulkAnswer(req, k) ==
    [req EXCEPT !.pc = "done", !.k = k, !.status = 200, !.success = TRUE, !.count = k]

\* The handler starts: Array.isArray(agents) (273-275), then the loop.  An
\* empty array is answered at once.
BulkStart(isArray, n) ==
    /\ bulkReq.pc = "idle"
    /\ \/ /\ ~isArray
          /\ bulkReq' = [bulkReq EXCEPT !.pc = "done", !.status = 400,
                                        !.error = "agents must be an array"]
       \/ /\ isArray /\ n = 0
          /\ bulkReq' = BulkAnswer(bulkReq, 0)
       \/ /\ isArray /\ n > 0
          /\ bulkReq' = [bulkReq EXCEPT !.pc = "loop", !.n = n]
    /\ UNCHANGED <<wsVars, emitted, wlVars, relVars, msgVars, agent, agResp, feedVars>>

\* the upsert of the next array element succeeds (279-327); after the last
\* element the handler answers
BulkUpsertOk(data) ==
    /\ bulkReq.pc = "loop"
    /\ agent' = Upsert(agent, data.id, BulkAgentData(data))
    /\ bulkReq' = IF bulkReq.k + 1 = bulkReq.n
                  THEN BulkAnswer(bulkReq, bulkReq.k + 1)
                  ELSE [bulkReq EXCEPT !.k = bulkReq.k + 1]
    /\ UNCHANGED <<wsVars, emitted, wlVars, relVars, msgVars, agResp, feedVars>>

\* the upsert of the next array element rejects: the loop is left for the catch
BulkUpsertFails ==
    /\ bulkReq.pc = "loop"
    /\ bulkReq' = BulkCatch(bulkReq)
    /\ UNCHANGED <<wsVars, emitted, wlVars, relVars, msgVars, agent, agResp, feedVars>>

\* ------------------------------------------------------ villa feed (132-176)
\* parseInt(req.query.limit) || 50 (line 134)
DefaultLimit == 50
Digits == <<"0", "1", "2", "3", "4", "5", "6", "7", "8", "9">>
IsDigit(c) == \E d \in 1..10 : Digits[d] = c
DigitValue(c) == (CHOOSE d \in 1..10 : Digits[d] = c) - 1

\* parseInt: the value of the leading digits, -1 for NaN (no leading digit)
RECURSIVE ParseDigits(_, _, _)
ParseDigits(str, i, acc) ==
    IF i > Len(str) \/ ~IsDigit(str[i]) THEN acc
    ELSE ParseDigits(str, i + 1, acc * 10 + DigitValue(str[i]))
ParseInt(str) ==
    IF Len(str) = 0 \/ ~IsDigit(str[1]) THEN -1 ELSE ParseDigits(str, 1, 0)
\* NaN and 0 are falsy
ParseLimit(str) == IF ParseInt(str) <= 0 THEN DefaultLimit ELSE ParseInt(str)

FeedItem(type, row) == [type |-> type, id |-> row.id, timestamp |-> row.createdAt]

\* where: { isPublic: true } (line 138)
PublicEvents(tbl) == { tbl[i] : i \in { j \in 1..Len(tbl) : tbl[j].isPublic } }
AllMessages(tbl) == { tbl[i] : i \in 1..Len(tbl) }

Min(a, b) == IF a < b THEN a ELSE b
Range(q) == { q[i] : i \in 1..Len(q) }

\* findMany({ orderBy: { createdAt: "desc" }, take }): the `take` newest rows,
\* newest first; the store orders rows of equal createdAt as it likes
FindManyDesc(rows, take) ==
    { q \in [1..Min(take, Cardinality(rows)) -> rows] :
        /\ \A i \in 1..Len(q) : \A j \in 1..Len(q) :
              i < j => (q[i] # q[j] /\ q[i].createdAt >= q[j].createdAt)
        /\ \A x \in rows \ Range(q) : \A i \in 1..Len(q) : q[i].createdAt >= x.createdAt }

\* a comparator that sorts oldest first
ComesBeforeAscending(a, b) == a.timestamp <= b.timestamp

\* (a, b) => b.timestamp.getTime() - a.timestamp.getTime() (line 169): a stays
\* before b when the difference is not positive
ComesBefore(a, b) == b.timestamp - a.timestamp <= 0

\* Array.prototype.sort with that comparator: a stable sort, as an insertion
RECURSIVE InsertSorted(_, _)
InsertSorted(sorted, x) ==
    IF sorted = <<>> THEN <<x>>
    ELSE IF ComesBefore(sorted[Len(sorted)], x) THEN Append(sorted, x)
    ELSE Append(InsertSorted(SubSeq(sorted, 1, Len(sorted) - 1), x), sorted[Len(sorted)])
RECURSIVE SortFeed(_)
SortFeed(items) ==
    IF items = <<>> THEN <<>>
    ELSE InsertSorted(SortFeed(SubSeq(items, 1, Len(items) - 1)), items[Len(items)])

\* feed.slice(0, limit) (line 171)
Slice(items, limit) == SubSeq(items, 1, Min(limit, Len(items)))

\* lines 166-171: tag, concatenate events then messages, sort, slice
MergeFeed(events, recentMessages, limit) ==
    Slice(SortFeed([i \in 1..Len(events) |-> FeedItem("event", events[i])]
                   \o [i \in 1..Len(recentMessages) |->
                          FeedItem("message", recentMessages[i])]),
          limit)

\* GET /api/villa-feed: the two queries, then the merge; or a query rejects
GetVillaFeed(query) ==
    /\ \/ \E events \in FindManyDesc(PublicEvents(event), ParseLimit(query)),
             recentMessages \in FindManyDesc(AllMessages(message), ParseLimit(query)) :
             feedResp' = [status |-> 200, limit |-> ParseLimit(query),
                          items |-> MergeFeed(events, recentMessages, ParseLimit(query))]
       \/ feedResp' = [status |-> 500, limit |-> ParseLimit(query), items |-> <<>>]
    /\ UNCHANGED <<wsVars, emitted, wlVars, relVars, msgVars, agVars, event>>

\* ------------------------------------------------------------------ Init
Init ==
    /\ villaFeedClients = 0
    /\ conversationsClients = 0
    /\ villaSockets = {}
    /\ convSockets = {}
    /\ wsEvents = 0
    /\ wsStatus = WsStatusBody(0, 0)
    /\ emitted = <<>>
    /\ waitlistEntry = <<>>
    /\ wlReq = [r \in WlReqIds |-> [pc |-> "idle", email |-> <<>>, status |-> 0,
                                    error |-> "", id |-> 0, storeError |-> NoError]]
    /\ relationship = <<>>
    /\ relReq = [r \in RelReqIds |-> RelIdle]
    /\ conversation = <<>>
    /\ message = <<>>
    /\ now = 1
    /\ msgReq = [r \in MsgReqIds |-> MsgIdle]
    /\ agent = <<>>
    /\ agResp = AgResponse("", 0, "", "", NoRow, {}, {}, NoPayload)
    /\ bulkReq = BulkIdle
    /\ event = <<>>
    /\ feedResp = [status |-> 0, limit |-> 0, items |-> <<>>]

\* ------------------------------------------------- specification: fan-out
NextWs ==
    \/ \E s \in SocketIds : VillaFeedConnection(s)
    \/ \E s \in SocketIds : VillaFeedDisconnect(s)
    \/ \E s \in SocketIds : ConversationsConnection(s)
    \/ \E s \in SocketIds : ConversationsDisconnect(s)
    \/ GetWsStatus

SpecWs == Init /\ [][NextWs]_vars

\* C10 (state part): each counter equals the number of sockets connected to
\* its topic, so it is never negative; every villa-feed connect/disconnect has
\* emitted exactly one "client-count", the last one carrying the counter.
CountersMatch ==
    /\ villaFeedClients = Cardinality(villaSockets)
    /\ conversationsClients = Cardinality(convSockets)
    /\ villaFeedClients >= 0 /\ conversationsClients >= 0
    /\ \A i \in 1..Len(emitted) :
          emitted[i].ns = "villa-feed" /\ emitted[i].event = "client-count"
    /\ Len(emitted) > 0 => emitted[Len(emitted)].data = villaFeedClients

\* C10 (step part): a change of one topic's subscribers leaves the other
\* topic's counter alone, a villa-feed change emits the new counter, a
\* conversations change emits nothing, and a status response reports the two
\* counters and their sum.
CountersStep ==
    /\ villaSockets' # villaSockets =>
          /\ conversationsClients' = conversationsClients
          /\ emitted' = Append(emitted, Emission("villa-feed", "client-count",
                                                 Cardinality(villaSockets')))
    /\ convSockets' # convSockets =>
          /\ villaFeedClients' = villaFeedClients
          /\ emitted' = emitted
    /\ wsStatus' # wsStatus =>
          /\ wsStatus'.villaFeed = Cardinality(villaSockets)
          /\ wsStatus'.conversations = Cardinality(convSockets)
          /\ wsStatus'.total = Cardinality(villaSockets) + Cardinality(convSockets)

\* C10: in every reachable state each topic's counter equals the number of
\* subscribers connected to it, the topics do not disturb each other, every
\* villa-feed connect/disconnect emits "client-count" with the counter after
\* the change, and ws-status reports the sum of the two counters.
C10_SubscriberCounters == [](CountersMatch) /\ [][CountersStep]_vars

\* C10 witness: both topics have seen connects and a disconnect, and a status
\* response with a non-zero total has been produced.
C10_Witness ==
    /\ villaFeedClients = 1 /\ conversationsClients = 1
    /\ wsEvents >= 4
    /\ Len(emitted) >= 3
    /\ wsStatus.total = 2

\* ------------------------------------------------ specification: waitlist
NextWaitlist == \E r \in WlReqIds, email \in Emails : PostWaitlist(r, email)

SpecWaitlist == Init /\ [][NextWaitlist]_vars

WlDone(e) == { r \in WlReqIds : wlReq[r].pc = "done" /\ wlReq[r].email = e }
WlSucceeded(e) == { r \in WlDone(e) : wlReq[r].status = 200 }
WlRows(e) == { i \in 1..Len(waitlistEntry) : waitlistEntry[i].email = e }

\* C4: for an email containing "@", among any sequential or concurrent
\* POST /waitlist requests carrying it (those the store did not fail for an
\* unrelated reason) exactly one returns success with the id of the row, every
\* other one returns 400 "Email already registered", and the table never
\* holds two rows with that email.
C4_WaitlistOncePerEmail ==
    \A e \in Emails : ~InvalidEmail(e) =>
        /\ Cardinality(WlRows(e)) <= 1
        /\ Cardinality(WlSucceeded(e)) <= 1
        /\ \A r \in WlSucceeded(e) :
              \E i \in WlRows(e) : waitlistEntry[i].id = wlReq[r].id
        /\ \A r \in WlDone(e) : wlReq[r].storeError # OtherError =>
              /\ Cardinality(WlSucceeded(e)) = 1
              /\ \/ r \in WlSucceeded(e)
                 \/ wlReq[r].status = 400 /\ wlReq[r].error = "Email already registered"

\* C4 witness: three requests with the same valid email have completed, one
\* with success and two with the already-registered response.
C4_Witness ==
    \E e \in Emails :
        /\ ~InvalidEmail(e)
        /\ Cardinality(WlSucceeded(e)) = 1
        /\ Cardinality({ r \in WlDone(e) : wlReq[r].status = 400
                            /\ wlReq[r].error = "Email already registered" }) >= 2

\* ------------------------------------------- specification: relationships
\* bodies of POST /api/relationships: without and with the optional fields
PostRelationshipBodies ==
    { [compatibilityScore |-> 0, status |-> Undefined],
      [compatibilityScore |-> 70, status |-> "coupled"] }

\* bodies of PUT /api/relationships/:id: one field, or all three
PutRelationshipBodies ==
    { [status |-> "ended", healthScore |-> Undefined, endedAt |-> Undefined],
      [status |-> "coupled", healthScore |-> "80", endedAt |-> "2026-01-01"] }

NextRelationships ==
    \/ \E r \in RelReqIds, a1 \in AgentIds, a2 \in AgentIds,
          b \in PostRelationshipBodies :
          PostRelationshipCreate(r, a1, a2, b.compatibilityScore, b.status)
    \/ \E r \in RelReqIds : PostRelationshipFindFirst(r)
    \/ \E r \in RelReqIds, id \in 1..(Len(relationship) + 1),
          b \in PutRelationshipBodies :
          PutRelationship(r, id, b.status, b.healthScore, b.endedAt)

SpecRelationships == Init /\ [][NextRelationships]_vars

RelPosted == { r \in RelReqIds : relReq[r].op = "post" /\ relReq[r].pc = "done"
                                  /\ relReq[r].status = 200 }
\* {a1, a2} and {b1, b2} are the same unordered pair
SameUnorderedPair(a1, a2, b1, b2) ==
    \/ a1 = b1 /\ a2 = b2
    \/ a1 = b2 /\ a2 = b1
SamePair(r1, r2) ==
    SameUnorderedPair(relReq[r1].agent1Id, relReq[r1].agent2Id,
                      relReq[r2].agent1Id, relReq[r2].agent2Id)

\* C1: POST /relationships for (X,Y) and for (Y,X) that both answer with
\* success return the same relationship id, the id of the one row of that
\* pair, and at most one of the two calls created a row.
C1_CreateOrFetch ==
    \A r1 \in RelPosted : \A r2 \in RelPosted :
        SamePair(r1, r2) =>
            /\ relReq[r1].respId = relReq[r2].respId
            /\ relReq[r1].respId \in 1..Len(relationship)
            /\ SameUnorderedPair(relationship[relReq[r1].respId].agent1Id,
                                 relationship[relReq[r1].respId].agent2Id,
                                 relReq[r1].agent1Id, relReq[r1].agent2Id)
            /\ r1 # r2 => ~(relReq[r1].created /\ relReq[r2].created)

\* C1 witness: a create of (X,Y) succeeded and a later POST of (Y,X), X # Y,
\* was answered from the lookup with the same id.
C1_Witness ==
    \E r1 \in RelPosted : \E r2 \in RelPosted :
        /\ relReq[r1].created /\ ~relReq[r2].created
        /\ relReq[r1].agent1Id # relReq[r1].agent2Id
        /\ relReq[r2].agent1Id = relReq[r1].agent2Id
        /\ relReq[r2].agent2Id = relReq[r1].agent1Id
        /\ relReq[r1].respId = relReq[r2].respId

\* C2: in every reachable state no two Relationship rows hold the same agent
\* pair, in the same or in the reversed order.
C2_OneRowPerPair ==
    \A i \in 1..Len(relationship) : \A j \in 1..Len(relationship) :
        i # j => ~SameUnorderedPair(relationship[i].agent1Id, relationship[i].agent2Id,
                                    relationship[j].agent1Id, relationship[j].agent2Id)

\* C2 witness: a row exists, a POST of its pair in the reversed order was
\* turned away by the index, and a PUT has updated a row.
C2_Witness ==
    /\ Len(relationship) >= 1
    /\ \E r \in RelReqIds :
          /\ relReq[r].storeError = P2002
          /\ \E i \in 1..Len(relationship) :
                /\ relationship[i].agent1Id = relReq[r].agent2Id
                /\ relationship[i].agent2Id = relReq[r].agent1Id
                /\ relationship[i].agent1Id # relationship[i].agent2Id
    /\ \E r \in RelReqIds : relReq[r].op = "put" /\ relReq[r].status = 200

\* ------------------------- specification: relationships, with scheduling
\* Every persistence call settles (it resolves or it rejects) and the event
\* loop then runs the handler's continuation: a handler waiting on findFirst
\* is eventually resumed.  Nothing obliges clients to send requests.
SpecRelationshipsFair ==
    /\ Init
    /\ [][NextRelationships]_vars
    /\ \A r \in RelReqIds : WF_vars(PostRelationshipFindFirst(r))

\* C11: every request that a handler has started to serve eventually has its
\* response, whichever persistence call fails; in particular a POST
\* /relationships whose create hit the uniqueness violation and is waiting on
\* the recovery lookup is eventually answered, with 500 when the lookup fails.
C11_EveryRequestAnswered ==
    \A r \in RelReqIds :
        /\ (relReq[r].pc # "idle") ~> (relReq[r].pc = "done")
        /\ [](relReq[r].pc # "idle" /\ relReq[r].storeError = OtherError
                 => relReq[r].pc = "done" /\ relReq[r].status = 500)

\* ------------------------------------------------ specification: messages
NextMessages ==
    \/ Tick
    \/ PostConversation(1)
    \/ \E r \in MsgReqIds, c \in 1..MaxConversations : PostMessageCreate(r, c)
    \/ \E r \in MsgReqIds : PostMessageIssueUpdate(r)
    \/ \E r \in MsgReqIds : PostMessageUpdate(r)
    \/ \E r \in MsgReqIds : PostMessageEmit(r)

SpecMessages == Init /\ [][NextMessages]_vars

MsgAnswered200 == { r \in MsgReqIds : msgReq[r].pc = "done" /\ msgReq[r].status = 200 }

\* C3: once a POST /messages has returned success, the parent conversation's
\* lastMessageAt is equal to or after the createdAt of the message it created,
\* in any interleaving with other POST /messages on the same conversation.
C3_LastMessageAtCoversMessage ==
    \A r \in MsgAnswered200 :
        conversation[msgReq[r].conversationId].lastMessageAt >= msgReq[r].createdAt

NewMessageEmissions ==
    { emitted[i].data : i \in { j \in 1..Len(emitted) : emitted[j].event = "new-message" } }

\* C9 (state part): a request whose conversation update failed after its
\* message was created has answered 500, its message is still stored and was
\* never announced; every "new-message" names a stored message whose request
\* has completed the conversation update.
PartialFailureState ==
    /\ \A r \in MsgReqIds :
          (msgReq[r].pc = "done" /\ msgReq[r].status = 500 /\ msgReq[r].msgId # 0) =>
              /\ \E i \in 1..Len(message) : message[i].id = msgReq[r].msgId
              /\ msgReq[r].msgId \notin NewMessageEmissions
              /\ ~msgReq[r].touched
    /\ \A m \in NewMessageEmissions :
          /\ \E i \in 1..Len(message) : message[i].id = m
          /\ \E r \in MsgReqIds : msgReq[r].msgId = m /\ msgReq[r].touched
    /\ \A r \in MsgReqIds : msgReq[r].touched => msgReq[r].msgId # 0
    /\ \A r \in MsgAnswered200 : msgReq[r].msgId \in NewMessageEmissions

\* C9 (step part): the step in which the conversation update fails changes
\* neither the conversation (lastMessageAt stays) nor the messages nor the
\* emissions, and answers 500.
PartialFailureStep ==
    \A r \in MsgReqIds :
        (msgReq[r].pc = "updating" /\ msgReq'[r].pc = "done") =>
            /\ msgReq'[r].status = 500
            /\ conversation' = conversation
            /\ message' = message
            /\ emitted' = emitted

\* C9: POST /messages runs create, update, emit in that order; a failed
\* update leaves the message stored, lastMessageAt unchanged, nothing emitted
\* and answers 500; every "new-message" refers to a persisted message whose
\* conversation update has completed.
C9_CreateUpdateEmitOrder == [](PartialFailureState) /\ [][PartialFailureStep]_vars

\* C9 witness: one request failed at the conversation update after creating
\* its message, and another request went through and was announced.
C9_Witness ==
    /\ \E r \in MsgReqIds : msgReq[r].pc = "done" /\ msgReq[r].status = 500
                             /\ msgReq[r].msgId # 0
    /\ \E r \in MsgAnswered200 : msgReq[r].msgId \in NewMessageEmissions

\* -------------------------------------------------- specification: agents
NextAgents ==
    \/ \E data \in Payloads : PostAgent(data)
    \/ \E id \in AgentIds : GetAgent(id)

SpecAgents == Init /\ [][NextAgents]_vars

\* a value the body carries
Supplied(v) == v # Undefined /\ v # Null

\* the value the body gives for a trait: the flat field when supplied,
\* otherwise the one in the nested group
TraitGiven(flat, group, field) ==
    IF Supplied(flat) THEN flat
    ELSE IF group.present THEN group[field] ELSE Undefined

\* C5: a GET /agents/:id that immediately follows a successful POST /agents
\* of that id returns the values that POST wrote: each trait the body gives
\* equals the flat field when supplied and otherwise the nested one, name is
\* the supplied name or "", status the supplied status or "single"; this for
\* an agent that was absent and for one present with any values.
C5_PostThenGet ==
    (agResp.op = "get" /\ agResp.after # NoPayload) =>
        LET data == agResp.after
            o == TraitGiven(data.openness, data.bigFive, "openness")
            f == TraitGiven(data.flirtatiousness, data.romance, "flirtatiousness")
        IN  /\ agResp.status = 200
            /\ agResp.id = data.id
            /\ agResp.row = agent[data.id]
            /\ agResp.row.name = (IF Supplied(data.name) THEN data.name ELSE "")
            /\ agResp.row.status = (IF Supplied(data.status) THEN data.status ELSE "single")
            /\ Supplied(o) => agResp.row.openness = o
            /\ Supplied(f) => agResp.row.flirtatiousness = f

\* C5 witness: a POST without status and name and with traits given in both
\* places was answered with success and then read back.
C5_Witness ==
    /\ agResp.op = "get" /\ agResp.after # NoPayload
    /\ agResp.after.status = Undefined /\ agResp.row.status = "single"
    /\ agResp.after.openness = "flat" /\ agResp.after.bigFive.present
    /\ agResp.row.openness = "flat"
    /\ agResp.after.flirtatiousness = "flat" /\ agResp.row.flirtatiousness = "flat"
    /\ agResp.after.name = Undefined /\ agResp.row.name = ""

\* ---------------------------------------------- specification: bulk sync
\* Rows that POST /api/agents leaves in the table, as the store the bulk
\* request finds.
PriorRows ==
    [name : {"Ann"}, status : {"single", "coupled"}, openness : {Null, "flat"},
     flirtatiousness : {Null}]

PriorStores ==
    UNION { [ids -> PriorRows] : ids \in SUBSET AgentIds }

InitBulk ==
    /\ villaFeedClients = 0
    /\ conversationsClients = 0
    /\ villaSockets = {}
    /\ convSockets = {}
    /\ wsEvents = 0
    /\ wsStatus = WsStatusBody(0, 0)
    /\ emitted = <<>>
    /\ waitlistEntry = <<>>
    /\ wlReq = [r \in WlReqIds |-> [pc |-> "idle", email |-> <<>>, status |-> 0,
                                    error |-> "", id |-> 0, storeError |-> NoError]]
    /\ relationship = <<>>
    /\ relReq = [r \in RelReqIds |-> RelIdle]
    /\ conversation = <<>>
    /\ message = <<>>
    /\ now = 1
    /\ msgReq = [r \in MsgReqIds |-> MsgIdle]
    /\ agent \in PriorStores
    /\ agResp = AgResponse("", 0, "", "", NoRow, {}, {}, NoPayload)
    /\ bulkReq = BulkIdle
    /\ event = <<>>
    /\ feedResp = [status |-> 0, limit |-> 0, items |-> <<>>]
    /\ event = <<>>
    /\ feedResp = [status |-> 0, limit |-> 0, items |-> <<>>]

NextBulk ==
    \/ \E isArray \in BOOLEAN, n \in 0..MaxBulk : BulkStart(isArray, n)
    \/ \E data \in Payloads : BulkUpsertOk(data)
    \/ BulkUpsertFails

SpecBulk == InitBulk /\ [][NextBulk]_vars

\* no trait is given both as a flat field and in a nested group
NoConflict(data) ==
    /\ ~(Supplied(data.openness) /\ Supplied(OptionalChain(data.bigFive, "openness")))
    /\ ~(Supplied(data.flirtatiousness)
            /\ Supplied(OptionalChain(data.romance, "flirtatiousness")))

\* C6: for a payload without a trait given in both places, POST /agents/bulk
\* with the one-element array [payload] leaves the Agent table as POST /agents
\* with that payload would, all fields, name and status included.
C6_BulkSameAsPost ==
    [][\A data \in Payloads :
          (bulkReq.n = 1 /\ NoConflict(data) /\ BulkUpsertOk(data)) =>
              agent' = Upsert(agent, data.id, PostAgentData(data))]_vars

\* C7 (state part): a bulk request answered 500 stopped before the end of the
\* array and reports the generic error only; one answered 400 wrote nothing;
\* one answered 200 processed every element and reports their number.
BulkOutcome ==
    bulkReq.pc = "done" =>
        \/ /\ bulkReq.status = 500
           /\ bulkReq.k < bulkReq.n
           /\ bulkReq.error = "Failed to bulk sync agents"
           /\ ~bulkReq.success /\ bulkReq.count = 0
        \/ /\ bulkReq.status = 400
           /\ bulkReq.k = 0 /\ bulkReq.error = "agents must be an array"
        \/ /\ bulkReq.status = 200
           /\ bulkReq.k = bulkReq.n /\ bulkReq.count = bulkReq.n

\* C7 (step part): the failing step and the 400 answer leave the table as it
\* is, so the elements upserted before stay applied; an answered request
\* takes no further step, so no later element is processed.
BulkStep ==
    /\ (bulkReq'.pc = "done" /\ bulkReq'.status # 200) => agent' = agent
    /\ bulkReq.pc = "done" => (bulkReq' = bulkReq /\ agent' = agent)
    /\ agent' # agent => bulkReq'.k = bulkReq.k + 1

\* C7: the bulk sync is not atomic: a failure at the k-th element keeps the
\* upserts of the elements before it, processes none after it and answers 500
\* with the generic error only; a non-array body answers 400 with the table
\* unchanged.
C7_BulkNotAtomic == [](BulkOutcome) /\ [][BulkStep]_vars

\* C7 witness: the second element of a two-element array failed after the
\* first had created an agent that was not there before.
C7_Witness ==
    /\ bulkReq.pc = "done" /\ bulkReq.status = 500
    /\ bulkReq.n = 2 /\ bulkReq.k = 1
    /\ \E id \in DOMAIN agent : agent[id].openness = "nested"

\* ------------------------------------------------ specification: villa feed
\* Tables as POST /api/events and POST /api/messages leave them: ids in
\* insertion order, creation times that do not decrease.
Timestamps(n) == { ts \in [1..n -> 1..MaxClock] :
                      \A i \in 1..n : \A j \in 1..n : i <= j => ts[i] <= ts[j] }
EventTables ==
    UNION { { [i \in 1..n |-> [id |-> i, createdAt |-> ts[i], isPublic |-> pub[i]]] :
                ts \in Timestamps(n), pub \in [1..n -> BOOLEAN] } : n \in 0..MaxEvents }
MessageTables ==
    UNION { { [i \in 1..n |-> NewMessage(i, 1, ts[i])] : ts \in Timestamps(n) } :
                n \in 0..MaxFeedMessages }

InitFeed ==
    /\ villaFeedClients = 0
    /\ conversationsClients = 0
    /\ villaSockets = {}
    /\ convSockets = {}
    /\ wsEvents = 0
    /\ wsStatus = WsStatusBody(0, 0)
    /\ emitted = <<>>
    /\ waitlistEntry = <<>>
    /\ wlReq = [r \in WlReqIds |-> [pc |-> "idle", email |-> <<>>, status |-> 0,
                                    error |-> "", id |-> 0, storeError |-> NoError]]
    /\ relationship = <<>>
    /\ relReq = [r \in RelReqIds |-> RelIdle]
    /\ conversation = <<NewConversation(1, 1, 1)>>
    /\ message \in MessageTables
    /\ now = MaxClock
    /\ msgReq = [r \in MsgReqIds |-> MsgIdle]
    /\ agent = <<>>
    /\ agResp = AgResponse("", 0, "", "", NoRow, {}, {}, NoPayload)
    /\ bulkReq = BulkIdle
    /\ event \in EventTables
    /\ feedResp = [status |-> 0, limit |-> 0, items |-> <<>>]

LimitQueries == { <<>>, <<"x">>, <<"0">>, <<"1">>, <<"2">>, <<"3">>, <<"2", "x">> }

NextFeed == \E query \in LimitQueries : GetVillaFeed(query)

SpecFeed == InitFeed /\ [][NextFeed]_vars

\* every item the feed could show: the public events and the messages, tagged
FeedUniverse ==
    { FeedItem("event", e) : e \in PublicEvents(event) }
        \cup { FeedItem("message", m) : m \in AllMessages(message) }

\* C8: for every store and positive limit N the feed holds exactly
\* min(N, total) items of the union of the public events and the messages,
\* none twice, newest first, none older than an item left out, each tagged
\* "event" or "message"; no non-public event appears.
C8_FeedTopN ==
    feedResp.status = 200 =>
        LET items == feedResp.items IN
        /\ feedResp.limit >= 1
        /\ Len(items) = Min(feedResp.limit, Cardinality(FeedUniverse))
        /\ \A i \in 1..Len(items) : items[i] \in FeedUniverse
        /\ \A i \in 1..Len(items) : \A j \in 1..Len(items) :
              i < j => (items[i] # items[j] /\ items[i].timestamp >= items[j].timestamp)
        /\ \A u \in FeedUniverse \ Range(items) :
              \A i \in 1..Len(items) : items[i].timestamp >= u.timestamp
        /\ \A i \in 1..Len(items) :
              items[i].type = "event" => event[items[i].id].isPublic

\* C8 witness: limit 2 with a single message, so the message query returns
\* fewer than N rows, and two public events: the feed holds two of the three
\* items, the message among them.
C8_Witness ==
    /\ feedResp.status = 200 /\ feedResp.limit = 2
    /\ Len(message) = 1 /\ Len(event) = 2
    /\ \A i \in 1..2 : event[i].isPublic
    /\ Len(feedResp.items) = 2
    /\ \E i \in 1..2 : feedResp.items[i].type = "message"

====
